---- MODULE Spec2Model ----
(***************************************************************************)
(* Game session state machine of QuizzBot (src/class/quizzbot.js).         *)
(*                                                                         *)
(* The bot runs on the Node.js event loop: every chat message and every    *)
(* timer expiry is handled to completion before the next one, so each      *)
(* handler is one atomic action.  setTimeout delays are abstracted: a      *)
(* pending timer may fire at any later turn of the event loop, which       *)
(* covers every configuration of questionDuration, timeBetweenQuestion and *)
(* timeBeforeTip.  What no configuration changes is kept: timers armed     *)
(* with the same delay expire in the order they were armed.  `timers` is   *)
(* the sequence of pending timers in arming order; the three handle fields *)
(* of the bot hold timer ids, and clearTimeout(handle) removes the timer   *)
(* with that id, if it is still pending.                                   *)
(*                                                                         *)
(* The stats, top, help and test commands only reply to their caller and   *)
(* touch no field of the session; they are left out.  Question and User    *)
(* (question.js, user.js) are not part of the source at hand and are       *)
(* modelled from their contracts.                                          *)
(*                                                                         *)
(* The constructor's normalisation of the options (lines 22-26) is a pure  *)
(* function of the configuration; ConfigSpec applies it to every           *)
(* configuration of a grid of millisecond values.  Spec runs the session   *)
(* of a bot constructed without options.                                   *)
(***************************************************************************)
EXTENDS Integers, Sequences, FiniteSets, TLC

\* ---------------------------------------------------------------- bounds
\* number of questions loaded in the pool (this.questions)
PoolSize == 2
\* configured options.continuousNoAnswer (inactivity limit)
ContinuousNoAnswer == 2
\* at most this many timers pending at once
MaxTimers == 3
\* cap on the sum of all user counters: the events the registry counts
MaxCount == 2
\* configured durations range over multiples of half the floor, up to this
\* many, each with the millisecond before and after it
MaxHalves == 6

\* ------------------------------------------------------ program constants
\* the floor of options.questionDuration
MinQuestionDuration == 10000
\* the default of options.questionDuration
DefaultQuestionDuration == 25000
\* the default of options.timeBeforeTip
DefaultTimeBeforeTip == 10000

\* ---------------------------------------------------------------- values
\* null / undefined for questions, timer handles and question instances
Null == 0
\* a handle whose timer has fired or was cleared: clearTimeout ignores it
Stale == -1
\* the null requester passed by game() to stopCommand
NoUser == "null"
Ops == {"oscar"}
Users == {"oscar", "alice"}
Questions == 1..PoolSize
TimerIds == 1..(MaxTimers + 4)
InstIds == 1..(MaxTimers + 2)

VARIABLES
    running,                 \* this.running
    currentQuestion,         \* this.currentQuestion (Null or a pool question)
    currentTotalTimer,       \* this.currentTotalTimer (handle)
    currentEndingSoonTimer,  \* this.currentEndingSoonTimer (handle)
    nextQuestionTimer,       \* this.nextQuestionTimer (handle)
    continuousNoAnswerCount, \* this.continuousNoAnswerCount
    timers,                  \* pending setTimeout timers, in arming order
    users,                   \* the user registry: counters per user
    crashed,                 \* a callback threw: the process is gone
    curInst,                 \* instance (round) id of currentQuestion
    said,                    \* messages sent to the channel by the last handler
    saved,                   \* calls of User.saveUserlist() by the last handler
    last,                    \* the event handled last, with what it did
    configured,              \* the options argument of the constructor
    options,                 \* this.options
    constructed              \* the constructor has normalised this.options

vars == <<running, currentQuestion, currentTotalTimer, currentEndingSoonTimer,
          nextQuestionTimer, continuousNoAnswerCount, timers, users, crashed,
          curInst, said, saved, last, configured, options, constructed>>

\* the bot's fields, left alone by every rejected command
botVars == <<running, currentQuestion, currentTotalTimer,
             currentEndingSoonTimer, nextQuestionTimer,
             continuousNoAnswerCount, timers, users, crashed, curInst>>

\* ------------------------------------------------------- the state record
\* Handlers are operators from a state record to a state record, so that a
\* handler can call another one (game -> stopCommand, handleAnswer -> game).
\* cycles, noq, stops and resolved record what the running handler did: calls
\* of game(), calls of game() that had no question to ask, effective stops, and
\* the question instance whose answer it revealed.
St ==
    [running |-> running, currentQuestion |-> currentQuestion,
     currentTotalTimer |-> currentTotalTimer,
     currentEndingSoonTimer |-> currentEndingSoonTimer,
     nextQuestionTimer |-> nextQuestionTimer,
     continuousNoAnswerCount |-> continuousNoAnswerCount,
     timers |-> timers, users |-> users, crashed |-> crashed,
     curInst |-> curInst,
     said |-> <<>>, saved |-> 0, cycles |-> 0, noq |-> 0, stops |-> 0,
     resolved |-> Null]

IsOp(user) == user \in Ops

Say(s, m) == [s EXCEPT !.said = Append(@, m)]

SaveUserlist(s) == [s EXCEPT !.saved = @ + 1]

\* the pending timers, as a set
TimerSet(ts) == {ts[i] : i \in 1..Len(ts)}

\* ids of the pending timers
PendingIdsOf(s) == {t.id : t \in TimerSet(s.timers)}

\* ids of the pending timers and ids a handle still holds
UsedIds(s) ==
    PendingIdsOf(s)
        \cup {s.currentTotalTimer, s.currentEndingSoonTimer, s.nextQuestionTimer}

\* setTimeout returns a new handle: an id no pending timer has and no handle
\* holds
FreshId(s) ==
    CHOOSE i \in TimerIds :
        /\ i \notin UsedIds(s)
        /\ \A j \in TimerIds : j < i => j \in UsedIds(s)

\* a fresh question instance: not current, not the target of a pending timer
FreshInst(s) ==
    CHOOSE i \in InstIds :
        LET used == {s.curInst} \cup {t.inst : t \in TimerSet(s.timers)}
        IN  /\ i \notin used
            /\ \A j \in InstIds : j < i => j \in used

\* a pending timer: kind is "next", "total" or "tip"; q is the question a
\* next-question timer captured; inst is the instance a total or tip timer
\* was armed for
Timer(id, kind, q, inst) == [id |-> id, kind |-> kind, q |-> q, inst |-> inst]

\* the timers without the one of that id
Without(ts, id) ==
    LET Other(t) == t.id # id
    IN  SelectSeq(ts, Other)

ClearTimeout(s, handle) == [s EXCEPT !.timers = Without(@, handle)]

\* setTimeout(callback, delay): the new timer is the last one armed
SetTimeout(s, timer) == [s EXCEPT !.timers = Append(@, timer)]

\* clearGame() forgetting clearTimeout(currentTotalTimer)
clearGameKeepsTotalTimer(s) ==
    LET s1 == [s EXCEPT !.currentQuestion = Null, !.curInst = Null]
    IN  ClearTimeout(s1, s1.currentEndingSoonTimer)

\* clearGame(): lines 148-153
clearGame(s) ==
    LET s1 == [s EXCEPT !.currentQuestion = Null, !.curInst = Null]
        s2 == ClearTimeout(s1, s1.currentEndingSoonTimer)
    IN  ClearTimeout(s2, s2.currentTotalTimer)

\* stopCommand() without the operator check
stopCommandByAnyone(s, user) ==
    IF s.running
    THEN LET s1 == [s EXCEPT !.running = FALSE, !.stops = @ + 1]
             s2 == clearGame(s1)
             s3 == ClearTimeout(s2, s2.nextQuestionTimer)
             s4 == IF user # NoUser
                   THEN Say([s3 EXCEPT !.users[user].quizzStopped = @ + 1],
                            "requestedStopQuizz")
                   ELSE s3
             s5 == IF s4.continuousNoAnswerCount >= ContinuousNoAnswer
                   THEN Say(s4, "stoppingQuizzForInactivity")
                   ELSE Say(s4, "stoppingQuizz")
         IN  SaveUserlist(s5)
    ELSE s

\* stopCommand(user, to, message): lines 304-324
stopCommand(s, user) ==
    IF s.running
    THEN IF user # NoUser /\ ~IsOp(user)
         THEN s
         ELSE LET s1 == [s EXCEPT !.running = FALSE, !.stops = @ + 1]
                  s2 == clearGame(s1)
                  s3 == ClearTimeout(s2, s2.nextQuestionTimer)
                  s4 == IF user # NoUser
                        THEN Say([s3 EXCEPT !.users[user].quizzStopped = @ + 1],
                                 "requestedStopQuizz")
                        ELSE s3
                  s5 == IF s4.continuousNoAnswerCount >= ContinuousNoAnswer
                        THEN Say(s4, "stoppingQuizzForInactivity")
                        ELSE Say(s4, "stoppingQuizz")
              IN  SaveUserlist(s5)
    ELSE s

\* game(user, to, message, forcedQuestion): lines 113-146.  forcedQuestion is
\* Null when absent or undefined; pick is what Question.getNextQuestion
\* returns when it is called.
game(s, forcedQuestion, pick) ==
    LET nextQuestion == IF forcedQuestion = Null THEN pick ELSE forcedQuestion
        s0 == [s EXCEPT !.cycles = @ + 1,
                        !.noq = IF nextQuestion = Null THEN @ + 1 ELSE @]
    IN  IF nextQuestion # Null /\ s0.continuousNoAnswerCount < ContinuousNoAnswer
        THEN LET s1 == Say(s0, "nextQuestionIn")
                 id == FreshId(s1)
             IN  SetTimeout([s1 EXCEPT !.nextQuestionTimer = id],
                            Timer(id, "next", nextQuestion, Null))
        ELSE stopCommand(s0, NoUser)

\* startCommand() with the operator check of stopCommand()
startCommandByOperator(s, user, noGame, pick) ==
    IF s.running = FALSE
    THEN IF user # NoUser /\ ~IsOp(user)
         THEN s
         ELSE LET s1 == [s EXCEPT !.running = TRUE]
                  s2 == Say(Say(s1, "requestedStartQuizz"), "startingQuizz")
                  s3 == [s2 EXCEPT !.users[user].quizzStarted = @ + 1,
                                   !.continuousNoAnswerCount = 0]
              IN  IF ~noGame THEN game(s3, Null, pick) ELSE s3
    ELSE s

\* startCommand() forgetting to reset continuousNoAnswerCount
startCommandKeepsCount(s, user, noGame, pick) ==
    IF s.running = FALSE
    THEN LET s1 == [s EXCEPT !.running = TRUE]
             s2 == Say(Say(s1, "requestedStartQuizz"), "startingQuizz")
             s3 == [s2 EXCEPT !.users[user].quizzStarted = @ + 1]
         IN  IF ~noGame THEN game(s3, Null, pick) ELSE s3
    ELSE s

\* startCommand() without the test of this.running
startCommandAlways(s, user, noGame, pick) ==
    LET s1 == [s EXCEPT !.running = TRUE]
        s2 == Say(Say(s1, "requestedStartQuizz"), "startingQuizz")
        s3 == [s2 EXCEPT !.users[user].quizzStarted = @ + 1,
                         !.continuousNoAnswerCount = 0]
    IN  IF ~noGame THEN game(s3, Null, pick) ELSE s3

\* startCommand(user, to, message, noGame): lines 281-293
startCommand(s, user, noGame, pick) ==
    IF s.running = FALSE
    THEN LET s1 == [s EXCEPT !.running = TRUE]
             s2 == Say(Say(s1, "requestedStartQuizz"), "startingQuizz")
             s3 == [s2 EXCEPT !.users[user].quizzStarted = @ + 1,
                              !.continuousNoAnswerCount = 0]
         IN  IF ~noGame THEN game(s3, Null, pick) ELSE s3
    ELSE s

\* Question.getNextQuestion(questions): a pool question, or null when the
\* selection policy has none to give
GetNextQuestion == Questions \cup {Null}

\* the results to draw for a handler: all of them when it reaches the call of
\* getNextQuestion, a placeholder when it does not
Picks(called) == IF called THEN GetNextQuestion ELSE {Null}

ZeroUser ==
    [points |-> 0, answers |-> 0, goodAnswers |-> 0,
     quizzStarted |-> 0, quizzStopped |-> 0]

\* ------------------------------------------------------------- options
\* An option is a number of milliseconds or is left out (undefined).
Undefined == [set |-> FALSE, v |-> 0]

Num(n) == [set |-> TRUE, v |-> n]

\* the configured values: around each multiple of half the floor
Millis ==
    {k * (MinQuestionDuration \div 2) + d : k \in 0..MaxHalves, d \in {-1, 0, 1}}

OptionValues == {Undefined} \cup {Num(n) : n \in Millis}

Configs == [questionDuration : OptionValues, timeBeforeTip : OptionValues]

\* a < n in JavaScript: false when a is undefined
Less(a, n) == a.set /\ a.v < n

\* a > n in JavaScript: false when a is undefined
Greater(a, n) == a.set /\ a.v > n

\* a || d in JavaScript: d when a is undefined or 0
Or(a, d) == IF a.set /\ a.v # 0 THEN a ELSE Num(d)

\* the constructor letting a short questionDuration through
constructorNoFloor(o) ==
    LET questionDuration == Or(o.questionDuration, DefaultQuestionDuration)
        timeBeforeTip ==
            Or(IF Greater(o.timeBeforeTip, questionDuration.v)
               THEN Num(questionDuration.v \div 2)
               ELSE o.timeBeforeTip,
               DefaultTimeBeforeTip)
    IN  [questionDuration |-> questionDuration, timeBeforeTip |-> timeBeforeTip]

\* the constructor clamping timeBeforeTip to the whole questionDuration
constructorClampsToDuration(o) ==
    LET questionDuration ==
            IF Less(o.questionDuration, MinQuestionDuration)
            THEN Num(MinQuestionDuration)
            ELSE Or(o.questionDuration, DefaultQuestionDuration)
        timeBeforeTip ==
            Or(IF Greater(o.timeBeforeTip, questionDuration.v)
               THEN Num(questionDuration.v)
               ELSE o.timeBeforeTip,
               DefaultTimeBeforeTip)
    IN  [questionDuration |-> questionDuration, timeBeforeTip |-> timeBeforeTip]

\* the constructor forgetting to clamp timeBeforeTip
constructorKeepsTip(o) ==
    LET questionDuration ==
            IF Less(o.questionDuration, MinQuestionDuration)
            THEN Num(MinQuestionDuration)
            ELSE Or(o.questionDuration, DefaultQuestionDuration)
        timeBeforeTip == Or(o.timeBeforeTip, DefaultTimeBeforeTip)
    IN  [questionDuration |-> questionDuration, timeBeforeTip |-> timeBeforeTip]

\* constructor(..., options): lines 22-26.  options and this.options are the
\* same object, so line 26 reads the questionDuration line 24 has set.
constructor(o) ==
    LET questionDuration ==
            IF Less(o.questionDuration, MinQuestionDuration)
            THEN Num(MinQuestionDuration)
            ELSE Or(o.questionDuration, DefaultQuestionDuration)
        timeBeforeTip ==
            Or(IF Greater(o.timeBeforeTip, questionDuration.v)
               THEN Num(questionDuration.v \div 2)
               ELSE o.timeBeforeTip,
               DefaultTimeBeforeTip)
    IN  [questionDuration |-> questionDuration, timeBeforeTip |-> timeBeforeTip]

\* the delay the tip timer is armed with: line 139
endingSoonDelay(o) == o.questionDuration.v - o.timeBeforeTip.v

\* new QuizzBot(...) without options
NoOptions == [questionDuration |-> Undefined, timeBeforeTip |-> Undefined]

\* the session fields as the constructor sets them: lines 31-37
InitSession ==
    /\ running = FALSE
    /\ currentQuestion = Null
    /\ currentTotalTimer = Null
    /\ currentEndingSoonTimer = Null
    /\ nextQuestionTimer = Null
    /\ continuousNoAnswerCount = 0
    /\ timers = <<>>
    /\ users = [u \in Users |-> ZeroUser]
    /\ crashed = FALSE
    /\ curInst = Null
    /\ said = <<>>
    /\ saved = 0
    /\ last = [op |-> "init", cycles |-> 0, noq |-> 0, stops |-> 0,
               resolved |-> Null]

Init ==
    /\ InitSession
    /\ configured = NoOptions
    /\ options = constructor(configured)
    /\ constructed = TRUE

\* the events the user registry has counted
RECURSIVE Counted(_, _)
Counted(us, U) ==
    IF U = {} THEN 0
    ELSE LET u == CHOOSE x \in U : TRUE
         IN  us[u].answers + us[u].quizzStarted + us[u].quizzStopped
                + Counted(us, U \ {u})

\* the model's caps: pending timers and counted events
WithinBounds(s) ==
    /\ Len(s.timers) <= MaxTimers
    /\ Counted(s.users, Users) <= MaxCount

\* what a handle holds once the handler is over: a handle whose timer is gone
\* is inert, whatever id it held
Held(s, handle) ==
    IF handle = Null \/ handle \in PendingIdsOf(s) THEN handle ELSE Stale

\* the handler's result becomes the next state
Becomes(s, ev) ==
    /\ WithinBounds(s)
    /\ running' = s.running
    /\ currentQuestion' = s.currentQuestion
    /\ currentTotalTimer' = Held(s, s.currentTotalTimer)
    /\ currentEndingSoonTimer' = Held(s, s.currentEndingSoonTimer)
    /\ nextQuestionTimer' = Held(s, s.nextQuestionTimer)
    /\ continuousNoAnswerCount' = s.continuousNoAnswerCount
    /\ timers' = s.timers
    /\ users' = s.users
    /\ crashed' = s.crashed
    /\ curInst' = s.curInst
    /\ said' = s.said
    /\ saved' = s.saved
    /\ last' = ev @@ [cycles |-> s.cycles, noq |-> s.noq, stops |-> s.stops,
                      resolved |-> s.resolved]
    /\ UNCHANGED <<configured, options, constructed>>

\* Question.isGoodAnswer(message, callback): the candidate text matches when
\* it equals the accepted answer once case and surrounding whitespace are
\* normalised.  A text is a word (0 is a word no question accepts) with its
\* case and padding.
Texts == [word : 0..PoolSize, upper : BOOLEAN, padded : BOOLEAN]

\* the chat lines the model sends: each word bare, and upper-cased with padding
Lines == {text \in Texts : text.upper = text.padded}

Normalize(text) == [text EXCEPT !.upper = FALSE, !.padded = FALSE]

AcceptedAnswer(q) == [word |-> q, upper |-> FALSE, padded |-> FALSE]

isGoodAnswer(q, text) == Normalize(text) = Normalize(AcceptedAnswer(q))

\* user.incrementPoints()
incrementPoints(s, user) == [s EXCEPT !.users[user].points = @ + 1]

\* user.plusGoodAnswer(): a good answer is an answer too
plusGoodAnswer(s, user) ==
    [s EXCEPT !.users[user].goodAnswers = @ + 1,
              !.users[user].answers = @ + 1]

\* user.plusAnswer()
plusAnswer(s, user) == [s EXCEPT !.users[user].answers = @ + 1]

\* handleAnswer() crediting a good answer without counting it as an answer
handleAnswerCreditsOnly(s, user, text, pick) ==
    IF s.currentQuestion # Null
    THEN IF isGoodAnswer(s.currentQuestion, text)
         THEN LET s1 == [incrementPoints(s, user)
                            EXCEPT !.users[user].goodAnswers = @ + 1]
                  s2 == Say(Say(s1, "goodAnswer"), "answer")
                  s3 == [s2 EXCEPT !.continuousNoAnswerCount = 0,
                                   !.resolved = s.curInst]
                  s4 == SaveUserlist(clearGame(s3))
              IN  game(s4, Null, pick)
         ELSE plusAnswer(s, user)
    ELSE s

\* handleAnswer() ending the round on a wrong answer
handleAnswerWrongEndsRound(s, user, text, pick) ==
    IF s.currentQuestion # Null
    THEN IF isGoodAnswer(s.currentQuestion, text)
         THEN LET s1 == plusGoodAnswer(incrementPoints(s, user), user)
                  s2 == Say(Say(s1, "goodAnswer"), "answer")
                  s3 == [s2 EXCEPT !.continuousNoAnswerCount = 0,
                                   !.resolved = s.curInst]
                  s4 == SaveUserlist(clearGame(s3))
              IN  game(s4, Null, pick)
         ELSE clearGame(plusAnswer(s, user))
    ELSE s

\* handleAnswer() forgetting to reset continuousNoAnswerCount
handleAnswerKeepsCount(s, user, text, pick) ==
    IF s.currentQuestion # Null
    THEN IF isGoodAnswer(s.currentQuestion, text)
         THEN LET s1 == plusGoodAnswer(incrementPoints(s, user), user)
                  s2 == Say(Say(s1, "goodAnswer"), "answer")
                  s3 == [s2 EXCEPT !.resolved = s.curInst]
                  s4 == SaveUserlist(clearGame(s3))
              IN  game(s4, Null, pick)
         ELSE plusAnswer(s, user)
    ELSE s

\* handleAnswer(user, to, message): lines 251-270
handleAnswer(s, user, text, pick) ==
    IF s.currentQuestion # Null
    THEN IF isGoodAnswer(s.currentQuestion, text)
         THEN LET s1 == plusGoodAnswer(incrementPoints(s, user), user)
                  s2 == Say(Say(s1, "goodAnswer"), "answer")
                  s3 == [s2 EXCEPT !.continuousNoAnswerCount = 0,
                                   !.resolved = s.curInst]
                  s4 == SaveUserlist(clearGame(s3))
              IN  game(s4, Null, pick)
         ELSE plusAnswer(s, user)
    ELSE s

\* askQuestionCommand(user, to, message, args): lines 375-385.  n is args[0];
\* this.questions[n - 1] is undefined outside 1..PoolSize.
askQuestionCommand(s, user, n, pick) ==
    IF ~IsOp(user)
    THEN s
    ELSE LET s1 == IF ~s.running THEN startCommand(s, user, TRUE, pick) ELSE s
             s2 == clearGame(s1)
         IN  game(s2, IF n \in Questions THEN n ELSE Null, pick)

\* timer t expires: it is pending no more when its callback runs
Expire(s, t) == [s EXCEPT !.timers = Without(@, t.id)]

\* timer t is the one of its kind armed first: the next of them to expire
Due(t) ==
    \E i \in 1..Len(timers) :
        /\ timers[i] = t
        /\ \A j \in 1..(i - 1) : timers[j].kind # t.kind

\* an uncaught TypeError in a timer callback ends the process
Throw(s) == [s EXCEPT !.crashed = TRUE]

\* the callback of nextQuestionTimer: lines 124-141
nextQuestionTimeout(s, t) ==
    LET s0 == Expire(s, t)
        inst == FreshInst([s0 EXCEPT !.curInst = Null])
        s1 == Say([s0 EXCEPT !.currentQuestion = t.q, !.curInst = inst],
                  "question")
        total == FreshId(s1)
        s2 == SetTimeout([s1 EXCEPT !.currentTotalTimer = total],
                         Timer(total, "total", Null, inst))
        tip == FreshId(s2)
    IN  SetTimeout([s2 EXCEPT !.currentEndingSoonTimer = tip],
                   Timer(tip, "tip", Null, inst))

\* the callback of currentTotalTimer: lines 127-134
totalTimeout(s, t, pick) ==
    LET s0 == Expire(s, t)
        s1 == Say(s0, "noGoodAnswer")
    IN  IF s1.currentQuestion = Null
        THEN Throw(s1)
        ELSE LET s2 == Say(s1, "answer")
                 s3 == [s2 EXCEPT !.continuousNoAnswerCount = @ + 1,
                                  !.resolved = s.curInst]
                 s4 == SaveUserlist(clearGame(s3))
             IN  game(s4, Null, pick)

\* the callback of currentEndingSoonTimer: lines 136-139
endingSoonTimeout(s, t) ==
    LET s0 == Expire(s, t)
        s1 == Say(s0, "questionEndingIn")
    IN  IF s1.currentQuestion = Null THEN Throw(s1) ELSE Say(s1, "tip")

\* langCommand(user, to, message, args): lines 337-362
langCommand(s, user, hasArg) ==
    IF ~IsOp(user)
    THEN s
    ELSE IF hasArg THEN Say(s, "langSet") ELSE Say(Say(s, "help_lang"), "langs")

\* sayCommand(user, to, message, args): lines 517-524
sayCommand(s, user) ==
    IF ~IsOp(user) THEN s ELSE Say(s, "say")

\* "!start" from a channel user
StartCommand(user) ==
    /\ ~crashed
    /\ \E pick \in Picks(~running) :
        Becomes(startCommand(St, user, FALSE, pick),
                [op |-> "start", user |-> user])

\* "!stop" from a channel user
StopCommand(user) ==
    /\ ~crashed
    /\ Becomes(stopCommand(St, user), [op |-> "stop", user |-> user])

\* "!ask n" from a channel user; n = 0 stands for a missing or zero index,
\* PoolSize + 1 for one past the pool
AskQuestionCommand(user) ==
    /\ ~crashed
    /\ \E n \in 0..(PoolSize + 1) :
       \E pick \in Picks(IsOp(user) /\ n \notin Questions) :
        Becomes(askQuestionCommand(St, user, n, pick),
                [op |-> "ask", user |-> user, n |-> n])

\* "!lang [code]" from a channel user
LangCommand(user) ==
    /\ ~crashed
    /\ \E hasArg \in BOOLEAN :
        Becomes(langCommand(St, user, hasArg), [op |-> "lang", user |-> user])

\* "!say text" from a channel user
SayCommand(user) ==
    /\ ~crashed
    /\ Becomes(sayCommand(St, user), [op |-> "say", user |-> user])

\* a chat line that is not a command: the 'message' listener, lines 70-78,
\* hands it to handleAnswer only while a question is active
Message(user) ==
    /\ ~crashed
    /\ \E text \in Lines :
       \E pick \in Picks(running /\ currentQuestion # Null
                            /\ isGoodAnswer(currentQuestion, text)) :
        IF running /\ currentQuestion # Null
        THEN Becomes(handleAnswer(St, user, text, pick),
                     [op |-> "answer", user |-> user,
                      good |-> isGoodAnswer(currentQuestion, text)])
        ELSE Becomes(St, [op |-> "chat", user |-> user])

\* the next-question timer t expires
NextQuestionTimeout(t) ==
    /\ ~crashed
    /\ t.kind = "next"
    /\ Due(t)
    /\ Becomes(nextQuestionTimeout(St, t), [op |-> "next", inst |-> t.inst])

\* the resolution timer t expires
TotalTimeout(t) ==
    /\ ~crashed
    /\ t.kind = "total"
    /\ Due(t)
    /\ \E pick \in Picks(currentQuestion # Null) :
        Becomes(totalTimeout(St, t, pick), [op |-> "total", inst |-> t.inst])

\* the tip timer t expires
EndingSoonTimeout(t) ==
    /\ ~crashed
    /\ t.kind = "tip"
    /\ Due(t)
    /\ Becomes(endingSoonTimeout(St, t), [op |-> "tip", inst |-> t.inst])

\* the constructor is entered with some configuration: this.options is the
\* options argument as given (line 23)
ConfigInit ==
    /\ InitSession
    /\ configured \in Configs
    /\ options = configured
    /\ constructed = FALSE

\* lines 24-26 normalise this.options
Constructor ==
    /\ ~constructed
    /\ options' = constructor(options)
    /\ constructed' = TRUE
    /\ UNCHANGED <<running, currentQuestion, currentTotalTimer,
                   currentEndingSoonTimer, nextQuestionTimer,
                   continuousNoAnswerCount, timers, users, crashed, curInst,
                   said, saved, last, configured>>

Next ==
    \/ \E user \in Users : StartCommand(user)
    \/ \E user \in Users : StopCommand(user)
    \/ \E user \in Users : AskQuestionCommand(user)
    \/ \E user \in Users : LangCommand(user)
    \/ \E user \in Users : SayCommand(user)
    \/ \E user \in Users : Message(user)
    \/ \E t \in TimerSet(timers) : NextQuestionTimeout(t)
    \/ \E t \in TimerSet(timers) : TotalTimeout(t)
    \/ \E t \in TimerSet(timers) : EndingSoonTimeout(t)

\* ------------------------------------------------------------ properties
Pending(kind) == {t \in TimerSet(timers) : t.kind = kind}

\* the last handler sent message m to the channel
Has(m) == \E i \in 1..Len(said) : said[i] = m

Count(seq, m) == Cardinality({i \in 1..Len(seq) : seq[i] = m})

\* C1: in every reachable state currentQuestion is non-null only if running
\* is true.
C1_QuestionOnlyWhileRunning == currentQuestion # Null => running

\* C2: right after any effective stop (by an operator or by game()),
\* running is false, currentQuestion is null and no timer is pending.
C2_StopLeavesNothingPending ==
    last.stops > 0 =>
        /\ running = FALSE
        /\ currentQuestion = Null
        /\ timers = <<>>

\* C3: resolve-once.  A handler that reveals the answer of a question
\* instance reveals it once, leaves that instance (and, for a resolution
\* timer, the instance the timer was armed for) neither current nor with a
\* resolution timer pending, so that the answer and the timer cannot both
\* resolve it, and enters the question cycle exactly once.
C3_ResolveOnce ==
    last.resolved # Null =>
        LET done == {last.resolved}
                        \cup (IF last.op = "total" THEN {last.inst} ELSE {})
        IN  /\ Count(said, "answer") = 1
            /\ Count(said, "goodAnswer") + Count(said, "noGoodAnswer") = 1
            /\ curInst \notin done
            /\ \A t \in Pending("total") : t.inst \notin done
            /\ last.cycles = 1
            /\ Count(said, "nextQuestionIn") <= 1

\* a correct answer has just resolved a question instance
W3_AnsweredOnce ==
    /\ last.op = "answer"
    /\ last.good
    /\ last.resolved # Null
    /\ Has("goodAnswer")

\* C4: at most one next-question timer and one resolution timer are pending,
\* no next-question timer is pending while a question is active, and a
\* running session is either awaiting the next question or has one active.
C4_OneRoundAtATime ==
    /\ Cardinality(Pending("next")) <= 1
    /\ Cardinality(Pending("total")) <= 1
    /\ currentQuestion # Null => Pending("next") = {}
    /\ (running /\ ~crashed) =>
          (currentQuestion = Null) = (Pending("next") # {})

\* C5: a tip or resolution timer callback runs only while the question
\* instance it was armed for is the current one.
C5_TimersOwnQuestion ==
    [][last'.op \in {"total", "tip"} =>
          (currentQuestion # Null /\ last'.inst = curInst)]_vars

\* C6: start while running changes nothing and announces nothing.
C6_StartWhileRunning ==
    [][(last'.op = "start" /\ running) =>
          (UNCHANGED botVars /\ said' = <<>> /\ saved' = 0)]_vars

\* start was issued while the session was running
W6_StartIgnored ==
    /\ last.op = "start"
    /\ running
    /\ said = <<>>
    /\ timers # <<>>

\* C7: stop, ask, lang or say from a non-operator changes nothing and
\* announces nothing.
C7_NonOperatorRejected ==
    [][(last'.op \in {"stop", "ask", "lang", "say"} /\ ~IsOp(last'.user)) =>
          (UNCHANGED botVars /\ said' = <<>> /\ saved' = 0)]_vars

\* a non-operator issued stop while the session was running
W7_StopRejected ==
    /\ last.op = "stop"
    /\ ~IsOp(last.user)
    /\ running
    /\ timers # <<>>

\* C8: when a timeout brings continuousNoAnswerCount to the limit, the
\* session auto-stops: running is false, the inactivity message (not the
\* normal one) is announced and no further question is on its way.
C8_AutoStopOnInactivity ==
    (/\ last.op = "total"
     /\ last.resolved # Null
     /\ continuousNoAnswerCount = ContinuousNoAnswer) =>
        /\ running = FALSE
        /\ Has("stoppingQuizzForInactivity")
        /\ ~Has("stoppingQuizz")
        /\ currentQuestion = Null
        /\ Pending("next") = {}

\* C9: when game() has no question to ask while the count is below the
\* limit, the session stops with the normal stopped message; at any stop the
\* message is the inactivity one exactly when the count has reached the limit.
C9_StopMessage ==
    /\ (last.noq > 0 /\ continuousNoAnswerCount < ContinuousNoAnswer) =>
          /\ running = FALSE
          /\ Has("stoppingQuizz")
          /\ ~Has("stoppingQuizzForInactivity")
    /\ last.stops > 0 =>
          /\ Has("stoppingQuizzForInactivity")
                <=> continuousNoAnswerCount >= ContinuousNoAnswer
          /\ Has("stoppingQuizz")
                <=> continuousNoAnswerCount < ContinuousNoAnswer

\* what C10 says of the counters, the count, the question and its timers
GoodAnswerEffects ==
    /\ users'[last'.user].points = users[last'.user].points + 1
    /\ users'[last'.user].goodAnswers = users[last'.user].goodAnswers + 1
    /\ users'[last'.user].answers = users[last'.user].answers + 1
    /\ continuousNoAnswerCount' = 0
    /\ currentQuestion' = Null
    /\ \A t \in TimerSet(timers') :
          t.kind \in {"total", "tip"} => t.inst # curInst
    /\ currentTotalTimer' \notin {t.id : t \in TimerSet(timers')}
    /\ currentEndingSoonTimer' \notin {t.id : t \in TimerSet(timers')}

\* a next-question timer armed by the handler is pending
NextArmed ==
    /\ Count(said', "nextQuestionIn") = 1
    /\ \E t \in TimerSet(timers') :
          t.kind = "next" /\ t.id = nextQuestionTimer'

\* C10 as claimed: a matching answer to the active question scores the user,
\* resets the count, clears the question and its timers and arms a
\* next-question timer.
C10_GoodAnswerArmsNext ==
    [][(last'.op = "answer" /\ last'.good) =>
          (GoodAnswerEffects /\ NextArmed)]_vars

\* C10 amended: ... and enters the question cycle once, which arms a
\* next-question timer when a question is available and otherwise stops the
\* session with the normal stopped message.
C10_GoodAnswerEntersCycle ==
    [][(last'.op = "answer" /\ last'.good) =>
          /\ GoodAnswerEffects
          /\ last'.cycles = 1
          /\ \/ last'.noq = 0 /\ running' /\ NextArmed
             \/ /\ last'.noq = 1
                /\ ~running'
                /\ Count(said', "stoppingQuizz") = 1
                /\ nextQuestionTimer' \notin {t.id : t \in TimerSet(timers')}]_vars

\* a matching answer has scored and the next question is on its way
W10_GoodAnswerScored ==
    /\ last.op = "answer"
    /\ last.good
    /\ users[last.user].points = 1
    /\ running
    /\ Pending("next") # {}

C12_WrongAnswerCountsOnly ==
    [][(last'.op = "answer" /\ ~last'.good) =>
          /\ users' = [users EXCEPT ![last'.user].answers = @ + 1]
          /\ currentQuestion' # Null
          /\ UNCHANGED <<running, currentQuestion, continuousNoAnswerCount,
                         timers, currentTotalTimer, currentEndingSoonTimer,
                         nextQuestionTimer, curInst, crashed>>
          /\ said' = <<>>]_vars

\* a wrong answer was counted and the round goes on
W12_WrongAnswerCounted ==
    /\ last.op = "answer"
    /\ ~last.good
    /\ users[last.user].answers = 1
    /\ users[last.user].goodAnswers = 0
    /\ running
    /\ currentQuestion # Null
    /\ Pending("total") # {}

\* C13: right after an operator's ask n with n in 1..PoolSize the session
\* is running, no question is active, and the next question to become active
\* is pool item n: a next-question timer is pending and every pending one
\* carries item n.
C13_AskForcesQuestion ==
    (last.op = "ask" /\ IsOp(last.user) /\ last.n \in Questions) =>
        /\ running
        /\ currentQuestion = Null
        /\ Pending("next") # {}
        /\ \A t \in Pending("next") : t.q = last.n

\* C14: right after an operator's ask with an index outside 1..PoolSize (or
\* none) the session is stopped and no question is active or on its way.
C14_InvalidAskStops ==
    (last.op = "ask" /\ IsOp(last.user) /\ last.n \notin Questions) =>
        /\ running = FALSE
        /\ currentQuestion = Null
        /\ Pending("next") = {}
        /\ ~Has("nextQuestionIn")

\* C15 as claimed: start from Idle by a requester who is not an operator
\* changes nothing and announces nothing.
C15_NonOperatorCannotStart ==
    [][(last'.op = "start" /\ ~running /\ ~IsOp(last'.user)) =>
          (UNCHANGED botVars /\ said' = <<>>)]_vars

\* C15 amended: start from Idle is effective for every requester, operator
\* or not: the start is announced and counted for the requester,
\* continuousNoAnswerCount is 0 and the question cycle is entered once, which
\* arms a next-question timer, or stops the session when there is no question.
C15_AnyoneStartsFromIdle ==
    [][(last'.op = "start" /\ ~running) =>
          /\ Len(said') >= 2
          /\ SubSeq(said', 1, 2) = <<"requestedStartQuizz", "startingQuizz">>
          /\ users' = [users EXCEPT ![last'.user].quizzStarted = @ + 1]
          /\ continuousNoAnswerCount' = 0
          /\ last'.cycles = 1
          /\ \/ last'.noq = 0 /\ running' /\ NextArmed
             \/ /\ last'.noq = 1
                /\ ~running'
                /\ Count(said', "stoppingQuizz") = 1]_vars

\* a requester who is not an operator has started the session
W15_NonOperatorStarted ==
    /\ last.op = "start"
    /\ ~IsOp(last.user)
    /\ users[last.user].quizzStarted = 1
    /\ running
    /\ Has("startingQuizz")
    /\ Pending("next") # {}

\* C16: a handler that changes a user record calls User.saveUserlist()
\* before it returns, so the change is persisted before the next event.
C16_ChangeIsPersisted ==
    [][users' # users => saved' > 0]_vars

\* C17: the effective questionDuration is a number never below the floor;
\* it is the floor for every configured value below the floor, and the
\* default when none is configured.
C17_QuestionDurationFloor ==
    constructed =>
        /\ options.questionDuration.set
        /\ options.questionDuration.v >= MinQuestionDuration
        /\ Less(configured.questionDuration, MinQuestionDuration) =>
              options.questionDuration.v = MinQuestionDuration
        /\ ~configured.questionDuration.set =>
              options.questionDuration.v = DefaultQuestionDuration

\* a questionDuration one millisecond short of the floor was raised to it
W17_ShortDurationRaised ==
    /\ constructed
    /\ configured.questionDuration = Num(MinQuestionDuration - 1)
    /\ options.questionDuration = Num(MinQuestionDuration)

\* C18: for every configured timeBeforeTip greater than the effective
\* questionDuration, the effective timeBeforeTip is floor(questionDuration / 2).
C18_LongTipHalved ==
    (constructed
        /\ Greater(configured.timeBeforeTip, options.questionDuration.v)) =>
        options.timeBeforeTip = Num(options.questionDuration.v \div 2)

\* a timeBeforeTip above an odd questionDuration was set to its half, rounded
\* down
W18_OddDurationHalved ==
    /\ constructed
    /\ options.questionDuration = Num(MinQuestionDuration + 1)
    /\ Greater(configured.timeBeforeTip, MinQuestionDuration + 1)
    /\ options.timeBeforeTip = Num(MinQuestionDuration \div 2)

\* C19 as claimed: the effective timeBeforeTip is at most half of the
\* effective questionDuration, for every configuration.
C19_TipAtMostHalf ==
    constructed =>
        2 * options.timeBeforeTip.v <= options.questionDuration.v

\* C19 amended: the effective timeBeforeTip is a number other than 0 and at
\* most the effective questionDuration, so the delay of the tip timer,
\* questionDuration - timeBeforeTip, is never negative; it is at most half
\* of the duration when the configured value exceeded the duration.
C19_TipWithinDuration ==
    constructed =>
        /\ options.timeBeforeTip.set
        /\ options.timeBeforeTip.v # 0
        /\ options.timeBeforeTip.v <= options.questionDuration.v
        /\ endingSoonDelay(options) >= 0
        /\ Greater(configured.timeBeforeTip, options.questionDuration.v) =>
              2 * options.timeBeforeTip.v <= options.questionDuration.v

\* a configured timeBeforeTip equal to the questionDuration is kept: the tip
\* is due as soon as the question is presented
W19_TipAtOnce ==
    /\ constructed
    /\ configured.timeBeforeTip.set
    /\ configured.timeBeforeTip = options.questionDuration
    /\ options.timeBeforeTip = options.questionDuration
    /\ endingSoonDelay(options) = 0

\* C20: continuousNoAnswerCount counts the rounds resolved by timeout since
\* the last effective start (by start, or by ask from Idle) or correct
\* answer: those set it to 0, a resolution by timeout adds 1, and no other
\* event (stop, ask while running, a wrong answer, a tip, a new question)
\* changes it; it is never negative.
C20_CountTracksTimeouts ==
    /\ [](continuousNoAnswerCount >= 0)
    /\ [][LET op == last'.op
              reset ==
                  \/ op = "start" /\ ~running
                  \/ op = "ask" /\ IsOp(last'.user) /\ ~running
                  \/ op = "answer" /\ last'.good
              timedOut == op = "total" /\ last'.resolved # Null
          IN  continuousNoAnswerCount' =
                  IF reset THEN 0
                  ELSE IF timedOut THEN continuousNoAnswerCount + 1
                  ELSE continuousNoAnswerCount]_vars

\* a first round was resolved by timeout and the session goes on
W20_OneTimeout ==
    /\ last.op = "total"
    /\ last.resolved # Null
    /\ continuousNoAnswerCount = 1
    /\ running
    /\ Pending("next") # {}

\* the session is stopped and nothing is pending
Stopped ==
    /\ running = FALSE
    /\ currentQuestion = Null
    /\ timers = <<>>

\* C21: a running session left to its timers (no command, no correct answer)
\* eventually is stopped with no question and no timer pending.  For that no
\* timer callback of a running session may end the process short of the
\* stopped state: once it has, no timer fires any more and running, the
\* question and the pending timers stay as they are for ever.
C21_TimersLeadToStop ==
    [][(running /\ last'.op \in {"next", "total", "tip"} /\ crashed') =>
          Stopped']_vars

Spec == Init /\ [][Next]_vars

\* the constructor applied to every configuration of the grid
ConfigSpec == ConfigInit /\ [][Constructor]_vars
====
